---- MODULE Spec2Model ----
(***************************************************************************)
(* Two-layer shallow-water example: the driver (hump.py) and the frame     *)
(* renderer (setplot_hump.py).                                             *)
(*                                                                         *)
(* The numpy arrays of setplot_hump.py and the Python floats of hump.py    *)
(* are IEEE doubles: 53 significant bits, signed zeros, subnormals,        *)
(* infinities and nan, every sum and quotient rounded to nearest, ties to  *)
(* even, as the hardware rounds.  numpy arrays over the cells are          *)
(* sequences (cell i of the model is index i-1 of the array); the          *)
(* component index of q and the layer index of rho are 0-based as in the   *)
(* source.                                                                 *)
(***************************************************************************)
EXTENDS Integers, Sequences, FiniteSets, TLC

\* ------------------------------------------------------------------ bounds
NumCells == 2
MaxFrame == 1
MaxArgs == 2

Cells == 1..NumCells
Frames == 0..MaxFrame

\* ------------------------------------------------------- float arithmetic
\* A float is an IEEE double: its class c ("fin", "inf" or "nan"), its
\* sign s and, when finite, the value s * (hi * Limb + lo) * 2^e.  The
\* significand hi * Limb + lo has Precision bits for a normal number, fewer
\* at the least exponent (subnormal numbers and the zeros, which keep their
\* sign).
Limb == 2^27
Precision == 53
MinExp == -1074
MaxExp == 971

Abs(x) == IF x < 0 THEN -x ELSE x
Max(x, y) == IF x >= y THEN x ELSE y

NaN == [c |-> "nan", s |-> 1, hi |-> 0, lo |-> 0, e |-> 0]
Inf(s) == [c |-> "inf", s |-> s, hi |-> 0, lo |-> 0, e |-> 0]
SignedZero(s) == [c |-> "fin", s |-> s, hi |-> 0, lo |-> 0, e |-> MinExp]
Zero == SignedZero(1)
IsNaN(x) == x.c = "nan"
IsZero(x) == x.c = "fin" /\ x.hi = 0 /\ x.lo = 0

\* natural numbers below 2^57 as two limbs <<high, low>>
WGe(a, b) == a[1] > b[1] \/ (a[1] = b[1] /\ a[2] >= b[2])
WAdd(a, b) == <<a[1] + b[1] + (a[2] + b[2]) \div Limb, (a[2] + b[2]) % Limb>>
WSub(a, b) == <<a[1] - b[1] - (IF a[2] < b[2] THEN 1 ELSE 0), (a[2] - b[2]) % Limb>>
WPow(k) == IF k >= 27 THEN <<2^(k - 27), 0>> ELSE <<0, 2^k>>

\* a * 2^k, for a product below 2^57
WShl(a, k) ==
    IF k >= 27 THEN <<a[2] * 2^(k - 27), 0>>
    ELSE <<a[1] * 2^k + a[2] \div 2^(27 - k), (a[2] % 2^(27 - k)) * 2^k>>

\* a \div 2^k
WShr(a, k) ==
    IF k >= 57 THEN <<0, 0>>
    ELSE IF k >= 27 THEN <<(a[1] \div 2^(k - 27)) \div Limb, (a[1] \div 2^(k - 27)) % Limb>>
    ELSE <<a[1] \div 2^k, (a[1] % 2^k) * 2^(27 - k) + a[2] \div 2^k>>

\* a % 2^k
WLow(a, k) ==
    IF k >= 57 THEN a
    ELSE IF k >= 27 THEN <<a[1] % 2^(k - 27), a[2]>>
    ELSE <<0, a[2] % 2^k>>

\* a \div 2^k with the lowest bit set when bits were lost
WJam(a, k) ==
    LET q == WShr(a, k)
    IN  IF WLow(a, k) = <<0, 0>> THEN q ELSE <<q[1], q[2] - (q[2] % 2) + 1>>

\* the number of bits of a
BitLen(n) == CHOOSE k \in 0..30 : n < 2^k /\ (k = 0 \/ n >= 2^(k - 1))
WLen(a) == IF a[1] > 0 THEN 27 + BitLen(a[1]) ELSE BitLen(a[2])

\* the finite float s * m * 2^e, or the infinity past the largest one
Fin(s, m, e) ==
    IF m = <<0, 0>> THEN SignedZero(s)
    ELSE IF e > MaxExp THEN Inf(s)
    ELSE [c |-> "fin", s |-> s, hi |-> m[1], lo |-> m[2], e |-> e]

\* round to nearest, ties to even: the float nearest to s * w * 2^e
Round(s, w, e) ==
    LET k == Max(WLen(w) - Precision, MinExp - e)
    IN  IF k <= 0 THEN Fin(s, WShl(w, -k), e + k)
        ELSE IF k > 57 THEN SignedZero(s)
        ELSE LET kept == WShr(w, k)
                 rest == WLow(w, k)
                 half == WPow(k - 1)
                 up == IF rest = half THEN kept[2] % 2 = 1 ELSE WGe(rest, half)
                 m == IF up THEN WAdd(kept, <<0, 1>>) ELSE kept
             IN  IF m = WPow(Precision) THEN Fin(s, WPow(Precision - 1), e + k + 1)
                 ELSE Fin(s, m, e + k)

\* the float of an integer
Num(k) == Round(IF k < 0 THEN -1 ELSE 1, <<Abs(k) \div Limb, Abs(k) % Limb>>, 0)

FNeg(x) == IF IsNaN(x) THEN x ELSE [x EXCEPT !.s = -x.s]

\* x + y: the exact sum of the significands, the smaller one aligned with
\* three more bits below the larger one's, then rounded
FAdd(x, y) ==
    IF IsNaN(x) \/ IsNaN(y) THEN NaN
    ELSE IF x.c = "inf" THEN (IF y.c = "inf" /\ y.s # x.s THEN NaN ELSE x)
    ELSE IF y.c = "inf" THEN y
    ELSE LET big == IF x.e >= y.e THEN x ELSE y
             small == IF x.e >= y.e THEN y ELSE x
             a == WShl(<<big.hi, big.lo>>, 3)
             b == WJam(WShl(<<small.hi, small.lo>>, 3), big.e - small.e)
         IN  IF big.s = small.s THEN Round(big.s, WAdd(a, b), big.e - 3)
             ELSE IF a = b THEN Zero
             ELSE IF WGe(a, b) THEN Round(big.s, WSub(a, b), big.e - 3)
             ELSE Round(small.s, WSub(b, a), big.e - 3)

\* x - y
FSub(x, y) == FAdd(x, FNeg(y))

\* long division, a bit at a step: <<the first k bits of the quotient
\* rem/den (rem < 2 * den), what is left of rem after them>>; the bits
\* after a remainder of 0 are 0
RECURSIVE Quot(_, _, _)
Quot(rem, den, k) ==
    IF k = 0 \/ rem = <<0, 0>> THEN <<0, rem>>
    ELSE IF WGe(rem, den)
         THEN LET r == Quot(WShl(WSub(rem, den), 1), den, k - 1)
              IN  <<2^(k - 1) + r[1], r[2]>>
         ELSE Quot(WShl(rem, 1), den, k - 1)

\* twice the first 56 bits of the quotient x/y of two Precision-bit
\* numbers, plus 1 when a remainder is left
Quotient(x, y) ==
    LET high == Quot(x, y, 29)
        low == Quot(high[2], y, 27)
    IN  WAdd(WShl(<<high[1], low[1]>>, 1), <<0, IF low[2] = <<0, 0>> THEN 0 ELSE 1>>)

\* x / y as numpy divides: x/0 is an infinity, 0/0 and inf/inf are nan
FDiv(x, y) ==
    IF IsNaN(x) \/ IsNaN(y) THEN NaN
    ELSE IF x.c = "inf" THEN (IF y.c = "inf" THEN NaN ELSE Inf(x.s * y.s))
    ELSE IF y.c = "inf" THEN SignedZero(x.s * y.s)
    ELSE IF IsZero(y) THEN (IF IsZero(x) THEN NaN ELSE Inf(x.s * y.s))
    ELSE IF IsZero(x) THEN SignedZero(x.s * y.s)
    ELSE LET sx == Precision - WLen(<<x.hi, x.lo>>)
             sy == Precision - WLen(<<y.hi, y.lo>>)
             q == Quotient(WShl(<<x.hi, x.lo>>, sx), WShl(<<y.hi, y.lo>>, sy))
         IN  Round(x.s * y.s, q, (x.e - sx) - (y.e - sy) - 56)

\* the float a literal n/d denotes, the nearest one
Double(n, d) == FDiv(Num(n), Num(d))

\* |x| > |y| for finite or infinite x and y
Larger(x, y) ==
    IF x.c = "inf" \/ y.c = "inf" THEN x.c = "inf" /\ y.c = "fin"
    ELSE \/ x.e > y.e
         \/ x.e = y.e /\ <<x.hi, x.lo>> # <<y.hi, y.lo>>
                      /\ WGe(<<x.hi, x.lo>>, <<y.hi, y.lo>>)

\* x > y: false on nan, the two zeros are equal
FGt(x, y) ==
    /\ ~IsNaN(x) /\ ~IsNaN(y)
    /\ ~(IsZero(x) /\ IsZero(y))
    /\ IF x.s # y.s THEN x.s > y.s
       ELSE IF x.s = 1 THEN Larger(x, y) ELSE Larger(y, x)

FGe(x, y) == ~IsNaN(x) /\ ~IsNaN(y) /\ ~FGt(y, x)

\* --------------------------------------------------------------- variables
VARIABLES
    rho,            \* setplot argument: the two layer densities
    dry_tolerance,  \* setplot argument
    b,              \* bathymetry read from frame 0 by setplot
    cd,             \* the current_data the framework last handed over
    derived,        \* the derived fields last returned for cd
    fig,            \* matplotlib's current figure (shared, global)
    outcome,        \* how the last afteraxes routine ended
    argv,           \* sys.argv[1:] of a script run
    eig_methods,    \* the list the entry point builds from argv
    hump_call,      \* the arguments hump was called with
    pc,             \* the statement hump.py is at
    env,            \* paths and the pyclaw module hump selected
    solver,         \* the ClawSolver1D object
    state,          \* the pyclaw State and its problem_data
    controller,     \* the pyclaw Controller
    plotted,        \* the arguments plot was called with
    log,            \* the steps of hump entered so far, in order
    failed,         \* the step whose external call raised, if any
    exc             \* the exception propagating out of the program

fieldVars == <<rho, dry_tolerance, b, cd, derived>>
renderVars == <<fig, outcome>>
driverVars == <<argv, eig_methods, hump_call, pc, env, solver, state, controller,
                plotted, log, failed, exc>>
vars == <<fieldVars, renderVars, driverVars>>

\* ---------------------------------------------- hump.py: the state at rest
resolution == 8000
family == 5
method == 2

NoCall == [num_cells |-> 0, eigen_method |-> 0, wave_family |-> 0,
           dry_state |-> FALSE, kargs |-> <<>>, from |-> "none"]
NoEnv == [prefix |-> <<>>, name |-> <<>>, outdir |-> "", plotdir |-> "",
          loggers |-> <<>>, pyclaw |-> ""]
NoSolver == [made |-> FALSE, riemann_solver |-> "", cfl_desired |-> Zero,
             cfl_max |-> Zero, max_steps |-> 0, fwave |-> FALSE,
             kernel_language |-> "", limiters |-> 0, source_split |-> 0,
             bc_lower |-> 0, bc_upper |-> 0, aux_bc_lower |-> 0, aux_bc_upper |-> 0,
             before_step |-> "", step_source |-> ""]
NoState == [made |-> FALSE, num_cells |-> 0, num_eqn |-> 0, num_aux |-> 0,
            lower |-> 0, upper |-> 0, data_set |-> FALSE, problem_data |-> <<>>,
            t |-> -1, aux |-> <<>>, q |-> ""]
NoController == [made |-> FALSE, output_style |-> 0, tfinal |-> 0,
                 num_output_times |-> 0, write_aux_init |-> FALSE, outdir |-> "",
                 write_aux |-> FALSE, output_format |-> "", runs |-> 0]
NoPlot == [calls |-> 0, setplot |-> "", outdir |-> "", plotdir |-> "",
           htmlplot |-> FALSE, iplot |-> FALSE, file_format |-> "",
           wave_family |-> 0, rho |-> <<>>, dry_tolerance |-> Zero]

DriverIdle ==
    /\ argv = <<>>
    /\ eig_methods = <<>>
    /\ hump_call = NoCall
    /\ pc = "idle"
    /\ env = NoEnv
    /\ solver = NoSolver
    /\ state = NoState
    /\ controller = NoController
    /\ plotted = NoPlot
    /\ log = <<>>
    /\ failed = "none"
    /\ exc = "none"

\* ------------------------------------------------- setplot: derived fields
bathy(c) == b

h_1(c) == [i \in DOMAIN c.q[0] |-> FDiv(c.q[0][i], rho[0])]

h_2(c) == [i \in DOMAIN c.q[2] |-> FDiv(c.q[2][i], rho[1])]

eta_2(c) == [i \in DOMAIN h_2(c) |-> FAdd(h_2(c)[i], bathy(c)[i])]

eta_1_over_bathy(c) == [i \in DOMAIN h_1(c) |-> FAdd(h_1(c)[i], bathy(c)[i])]

eta_1(c) == [i \in DOMAIN h_1(c) |-> FAdd(h_1(c)[i], eta_2(c)[i])]

\* np.nonzero(h > dry_tolerance): the cells the assignment divides in
index_1_inclusive(c) == {i \in DOMAIN h_1(c) : FGe(h_1(c)[i], dry_tolerance)}

index_1(c) == {i \in DOMAIN h_1(c) : FGt(h_1(c)[i], dry_tolerance)}

index_2_by_momentum(c) ==
    {i \in DOMAIN h_2(c) : FGt(FDiv(c.q[3][i], rho[1]), dry_tolerance)}

index_2(c) == {i \in DOMAIN h_2(c) : FGt(h_2(c)[i], dry_tolerance)}

u_1_by_depth(c) ==
    [i \in DOMAIN h_1(c) |->
        IF i \in index_1(c) THEN FDiv(c.q[1][i], h_1(c)[i]) ELSE Zero]

u_1(c) ==
    [i \in DOMAIN h_1(c) |->
        IF i \in index_1(c) THEN FDiv(c.q[1][i], c.q[0][i]) ELSE Zero]

u_2(c) ==
    [i \in DOMAIN h_2(c) |->
        IF i \in index_2(c) THEN FDiv(c.q[3][i], c.q[2][i]) ELSE Zero]

\* ------------------------------------------------ setplot: window settings
xlimits == <<Num(-2000), Num(4000)>>
ylimits_depth == <<Num(-3300), Num(100)>>
xlimits_depth_zoomed == <<Num(-2000), Num(3500)>>
ylimits_depth_zoomed == <<Num(-120), Num(100)>>
xlimits_depth_zoomed_internal == <<Num(-100), Num(3500)>>
ylimits_depth_zoomed_internal == <<Double(-201, 2), Double(-195, 2)>>
xlimits_depth_zoomed_surface == <<Num(-100), Num(3500)>>
ylimits_depth_zoomed_surface == <<Num(-2), Num(5)>>
ylimits_velocities == <<Double(-4, 5), Double(4, 5)>>

\* --------------------------------------------------- the matplotlib figure
NoFigure == [axes |-> <<>>, hspace |-> "default"]
NotCalled == [routine |-> "none", fault |-> 0, result |-> "none", at |-> 0,
              found |-> {}]

\* cd.patch.dimensions[0].centers on the domain [-2000, 4000]
centers(c) ==
    [i \in Cells |-> Double(-2000 * 2 * NumCells + (2 * i - 1) * 6000, 2 * NumCells)]

Call(a, o, v) == [ax |-> a, op |-> o, arg |-> v]

AxesAt(f, pos) == {k \in 1..Len(f.axes) : f.axes[k].pos = pos}

\* a new subplot: nothing drawn, nothing set
NewAxes(pos) ==
    [pos |-> pos, artists |-> <<>>, set_ticklabels |-> "auto", set_title |-> <<"">>,
     set_xlim |-> <<>>, set_ylim |-> <<>>, set_xlabel |-> "", set_ylabel |-> "",
     legend |-> 0]

SetProp(axes, name, value) ==
    CASE name = "set_ticklabels" -> [axes EXCEPT !.set_ticklabels = value]
      [] name = "set_title" -> [axes EXCEPT !.set_title = value]
      [] name = "set_xlim" -> [axes EXCEPT !.set_xlim = value]
      [] name = "set_ylim" -> [axes EXCEPT !.set_ylim = value]
      [] name = "set_xlabel" -> [axes EXCEPT !.set_xlabel = value]
      [] name = "set_ylabel" -> [axes EXCEPT !.set_ylabel = value]
      [] name = "legend" -> [axes EXCEPT !.legend = value]

\* what one matplotlib call does to the current figure
Effect(call, f) ==
    CASE call.op = "clf" -> [f EXCEPT !.axes = <<>>]
      [] call.op = "add_subplot" ->
            IF AxesAt(f, call.arg) # {} THEN f
            ELSE [f EXCEPT !.axes = Append(@, NewAxes(call.arg))]
      [] call.op \in {"fill_between", "plot"} ->
            [f EXCEPT !.axes =
                [k \in 1..Len(@) |->
                    IF @[k].pos = call.ax
                    THEN [@[k] EXCEPT !.artists = Append(@, <<call.op, call.arg>>)]
                    ELSE @[k]]]
      [] call.op \in {"set_ticklabels", "set_title", "set_xlim", "set_ylim",
                      "set_xlabel", "set_ylabel", "legend"} ->
            [f EXCEPT !.axes =
                [k \in 1..Len(@) |->
                    IF @[k].pos = call.ax THEN SetProp(@[k], call.op, call.arg)
                    ELSE @[k]]]
      [] call.op = "subplots_adjust" -> [f EXCEPT !.hspace = call.arg]
      [] OTHER -> f

\* the try ... except: pass of the routines encloses this call alone
Guarded_nothing(call) == FALSE

Guarded(call) == call.op = "subplots_adjust"

\* the calls from position k on, the call at position fault raising
RECURSIVE Draw(_, _, _, _)
Draw(calls, k, f, fault) ==
    IF k > Len(calls) THEN [fig |-> f, result |-> "returned", at |-> 0]
    ELSE IF k = fault
         THEN IF Guarded(calls[k]) THEN Draw(calls, k + 1, f, fault)
              ELSE [fig |-> f, result |-> "raised", at |-> k]
         ELSE Draw(calls, k + 1, Effect(calls[k], f), fault)

Title(c) == <<"t = %3.2f", c.t>>
BlankLabels == "blank"
LocLabels == "str(loc)"

\* fig = mpl.gcf(); fig.clf()
KeepFigure == << Call("fig", "gcf", <<>>) >>

ClearFigure == << Call("fig", "gcf", <<>>), Call("fig", "clf", <<>>) >>

DepthAndVelocity(c, xlim, ylim) ==
    ClearFigure \o
    << Call("cd", "centers", <<>>),
       Call("fig", "add_subplot", 211),
       Call("fig", "add_subplot", 212),
       Call(211, "fill_between", <<centers(c), bathy(c), eta_2(c), "bottom_color">>),
       Call(211, "fill_between", <<centers(c), eta_2(c), eta_1(c), "top_color">>),
       Call(211, "plot", <<centers(c), bathy(c), "k", "bathy_linestyle">>),
       Call(211, "plot", <<centers(c), eta_2(c), "k">>),
       Call(211, "plot", <<centers(c), eta_1(c), "k">>),
       Call(211, "get_ticklocs", <<>>),
       Call(211, "set_ticklabels", BlankLabels),
       Call(211, "set_title", Title(c)),
       Call(211, "set_xlim", xlim),
       Call(211, "set_ylim", ylim),
       Call(211, "set_ylabel", "Depth (m)"),
       Call(212, "plot", <<centers(c), u_2(c), "k", "internal_linestyle">>),
       Call(212, "plot", <<centers(c), u_1(c), "b", "surface_linestyle">>),
       Call(212, "legend", 4),
       Call(212, "set_title", <<"">>),
       Call(212, "set_ylabel", "Velocities (m/s)"),
       Call(212, "set_xlabel", "x (m)"),
       Call(212, "set_xlim", xlimits),
       Call(212, "set_ylim", ylimits_velocities),
       Call(212, "get_ticklocs", <<>>),
       Call(212, "set_ticklabels", LocLabels),
       Call("mpl", "subplots_adjust", "0.1") >>

Marker(x) == <<<<Num(x), Num(x)>>, <<Num(-32000), Num(100)>>, "--k">>

DepthZoomed(c) ==
    ClearFigure \o
    << Call("cd", "centers", <<>>),
       Call("fig", "add_subplot", 211),
       Call("fig", "add_subplot", 212),
       Call(212, "fill_between", <<centers(c), bathy(c), eta_2(c), "bottom_color">>),
       Call(212, "fill_between", <<centers(c), eta_2(c), eta_1(c), "top_color">>),
       Call(211, "fill_between", <<centers(c), bathy(c), eta_2(c), "bottom_color">>),
       Call(211, "fill_between", <<centers(c), eta_2(c), eta_1(c), "top_color">>),
       Call(212, "plot", <<centers(c), bathy(c), "k", "bathy_linestyle">>),
       Call(212, "plot", <<centers(c), eta_1(c), "k">>),
       Call(212, "plot", <<centers(c), eta_2(c), "k">>),
       Call(211, "plot", <<centers(c), eta_1(c), "k">>),
       Call(211, "plot", <<centers(c), eta_2(c), "k">>),
       Call(211, "plot", Marker(0)),
       Call(212, "plot", Marker(0)),
       Call(212, "plot", Marker(2500)),
       Call(211, "plot", Marker(2500)),
       Call(211, "get_ticklocs", <<>>),
       Call(211, "set_ticklabels", BlankLabels),
       Call(211, "set_title", Title(c)),
       Call(211, "set_xlim", xlimits_depth_zoomed_surface),
       Call(211, "set_ylim", ylimits_depth_zoomed_surface),
       Call(211, "set_ylabel", "Depth (m)"),
       Call(212, "set_title", <<"">>),
       Call(212, "set_xlim", xlimits_depth_zoomed_internal),
       Call(212, "set_ylim", ylimits_depth_zoomed_internal),
       Call(212, "set_xlabel", "x (m)"),
       Call(212, "set_ylabel", "Depth (m)"),
       Call(212, "get_ticklocs", <<>>),
       Call(212, "set_ticklabels", LocLabels),
       Call("mpl", "subplots_adjust", "0.1") >>

\* the times in the titles of the subplots a figure holds
Found(f) ==
    {f.axes[k].set_title[2] : k \in {j \in 1..Len(f.axes) : Len(f.axes[j].set_title) = 2}}

\* the framework calls an afteraxes routine on the frame c
Render(name, calls, c, fault) ==
    /\ outcome.result # "raised"
    /\ LET r == Draw(calls, 1, fig, fault)
       IN  /\ fig' = r.fig
           /\ outcome' = [routine |-> name, fault |-> fault, result |-> r.result,
                           at |-> r.at, found |-> Found(fig)]
    /\ cd' = c
    /\ UNCHANGED <<rho, dry_tolerance, b, derived, driverVars>>

\* (the list of calls is built once per routine call)
twin_axes_14(c) ==
    LET calls == DepthAndVelocity(c, xlimits, ylimits_depth)
    IN  \E cs \in {calls} : \E fault \in 0..Len(cs) : Render("twin_axes_14", cs, c, fault)

twin_axes_15(c) ==
    LET calls == DepthAndVelocity(c, xlimits_depth_zoomed, ylimits_depth_zoomed)
    IN  \E cs \in {calls} : \E fault \in 0..Len(cs) : Render("twin_axes_15", cs, c, fault)

twin_axes_zoomed(c) ==
    LET calls == DepthZoomed(c)
    IN  \E cs \in {calls} : \E fault \in 0..Len(cs) : Render("twin_axes_zoomed", cs, c, fault)

\* ------------------------------------------------------------------ inputs
\* the values of a frame's cells and of setplot's arguments: floats
Masses == {Num(-1), Zero, Num(1)}
Momenta == {Num(-1), Num(2)}
DensityPairs == { <<Num(1), Num(3)>>, <<Num(3), Num(1)>>, <<Num(-1), Num(1)>>,
                  <<Double(95, 100), Num(1)>> }
DryTolerances == {Num(-1), Zero, Num(1), Double(1, 1000)}

Arrays(S) == [Cells -> S]
Conserved ==
    {[k \in 0..3 |-> CASE k = 0 -> m1 [] k = 1 -> p1 [] k = 2 -> m2 [] OTHER -> p2] :
        m1 \in Arrays(Masses), p1 \in Arrays(Momenta),
        m2 \in Arrays(Masses), p2 \in Arrays(Momenta)}

\* the sea floor: a shelf sloping up along the domain
BathyProfiles == { [i \in Cells |-> Num(i - 3)] }

NoFields == [h_1 |-> <<>>, h_2 |-> <<>>, eta_1 |-> <<>>, eta_2 |-> <<>>,
             u_1 |-> <<>>, u_2 |-> <<>>, index_1 |-> {}, index_2 |-> {}]

setplot(r, tol, bottom) ==
    /\ rho = [l \in 0..1 |-> r[l + 1]]
    /\ dry_tolerance = tol
    /\ b = bottom

\* setplot has been called and the framework holds the frame to evaluate
InitFields ==
    /\ \E r \in DensityPairs, tol \in DryTolerances, bottom \in BathyProfiles :
           setplot(r, tol, bottom)
    /\ \E q \in Conserved : cd = [frameno |-> 0, t |-> 0, q |-> q]
    /\ derived = NoFields
    /\ fig = NoFigure
    /\ outcome = NotCalled
    /\ DriverIdle

\* the plotting framework evaluates the derived fields of the frame
DerivedFields ==
    /\ derived = NoFields
    /\ derived' = [h_1 |-> h_1(cd), h_2 |-> h_2(cd),
                   eta_1 |-> eta_1(cd), eta_2 |-> eta_2(cd),
                   u_1 |-> u_1(cd), u_2 |-> u_2(cd),
                   index_1 |-> index_1(cd), index_2 |-> index_2(cd)]
    /\ UNCHANGED <<rho, dry_tolerance, b, cd, renderVars, driverVars>>

NextFields == DerivedFields

\* frames the renderer is run on: every cell alike, top layer wet or dry
Uniform(m1, p1, m2, p2) ==
    [k \in 0..3 |-> [i \in Cells |->
        CASE k = 0 -> m1 [] k = 1 -> p1 [] k = 2 -> m2 [] OTHER -> p2]]
RenderConserved == {Uniform(m, Num(2), Num(1), Num(-1)) : m \in {Zero, Num(1)}}
\* output_style 1: frame n is written at t = n * tfinal / num_output_times
RenderData == {[frameno |-> f, t |-> f, q |-> q] : f \in Frames, q \in RenderConserved}

\* setplot has been called with a lighter top layer and the tolerance the
\* driver passes on; nothing is drawn yet
InitRender ==
    /\ \E bottom \in BathyProfiles : setplot(<<Num(1), Num(2)>>, Double(1, 1000), bottom)
    /\ cd = [frameno |-> -1, t |-> -1, q |-> Uniform(Zero, Zero, Zero, Zero)]
    /\ derived = NoFields
    /\ fig = NoFigure
    /\ outcome = NotCalled
    /\ DriverIdle

NextRender ==
    \E c \in RenderData :
        \/ twin_axes_14(c)
        \/ twin_axes_15(c)
        \/ twin_axes_zoomed(c)

SpecRender == InitRender /\ [][NextRender]_vars

SpecFields == InitFields /\ [][NextFields]_vars

\* ------------------------------------------------------------- hump.py
\* dict.get(key, default) on the keyword arguments
KGet(k, key, default) == IF key \in DOMAIN k THEN k[key] ELSE default

\* int(value) on a string given as its characters
Digits == <<"0", "1", "2", "3", "4", "5", "6", "7", "8", "9">>
IsDigit(ch) == \E v \in 1..10 : Digits[v] = ch
DigitValue(ch) == (CHOOSE v \in 1..10 : Digits[v] = ch) - 1

RECURSIVE Decimal(_)
Decimal(chars) ==
    IF chars = <<>> THEN 0
    ELSE 10 * Decimal(SubSeq(chars, 1, Len(chars) - 1)) + DigitValue(chars[Len(chars)])

\* the characters str.isspace accepts: space, tab, line feed, carriage
\* return, form feed and vertical tab (the last written as the character itself)
Whitespace == {" ", "\t", "\n", "\r", "\f", ""}

RECURSIVE LStrip(_)
LStrip(chars) ==
    IF chars # <<>> /\ chars[1] \in Whitespace THEN LStrip(Tail(chars)) ELSE chars

RECURSIVE RStrip(_)
RStrip(chars) ==
    IF chars # <<>> /\ chars[Len(chars)] \in Whitespace
    THEN RStrip(SubSeq(chars, 1, Len(chars) - 1)) ELSE chars

\* Python 2: blanks around the number and between the sign and the digits
\* are skipped; anything else but digits is a ValueError
int(tok) ==
    LET body == RStrip(LStrip(tok))
        signed == body # <<>> /\ body[1] \in {"-", "+"}
        digits == IF signed THEN LStrip(Tail(body)) ELSE body
    IN  IF digits = <<>> \/ \E k \in 1..Len(digits) : ~IsDigit(digits[k])
        THEN [ok |-> FALSE, value |-> 0]
        ELSE [ok |-> TRUE,
              value |-> IF signed /\ body[1] = "-" THEN -Decimal(digits)
                        ELSE Decimal(digits)]

\* the entry point's list of methods: one per argument, or [2]
EigMethods(args) ==
    IF Len(args) > 0 THEN [k \in 1..Len(args) |-> int(args[k]).value]
    ELSE <<2>>

\* if __name__ == "__main__": parse the arguments, then one hump_call of hump
Main ==
    /\ pc = "main"
    /\ IF \E k \in 1..Len(argv) : ~int(argv[k]).ok
       THEN /\ pc' = "raised"
            /\ exc' = "ValueError"
            /\ eig_methods' =
                 LET bad == CHOOSE k \in 1..Len(argv) :
                                /\ ~int(argv[k]).ok
                                /\ \A j \in 1..(k - 1) : int(argv[j]).ok
                 IN  [k \in 1..(bad - 1) |-> int(argv[k]).value]
            /\ UNCHANGED hump_call
       ELSE /\ eig_methods' = EigMethods(argv)
            /\ hump_call' = [num_cells |-> resolution, eigen_method |-> method,
                        wave_family |-> family, dry_state |-> FALSE,
                        kargs |-> [iplot |-> FALSE, htmlplot |-> TRUE],
                        from |-> "script"]
            /\ pc' = "paths"
            /\ UNCHANGED exc
    /\ UNCHANGED <<fieldVars, renderVars, argv, env, solver, state, controller,
                   plotted, log, failed>>

\* a statement of hump that calls into clawpack or multilayer raised
Raises(step) ==
    /\ pc' = "raised"
    /\ exc' = "external"
    /\ failed' = step
    /\ log' = Append(log, step)

Enters(step, next) ==
    /\ pc' = next
    /\ log' = Append(log, step)
    /\ UNCHANGED <<exc, failed>>

\* output and plot directory paths (lines 18-26)
CreatePaths ==
    /\ pc = "paths"
    /\ LET named == [env EXCEPT
                    !.prefix = <<"ml_e%s_n%s", hump_call.eigen_method, hump_call.num_cells>>,
                    !.name = IF hump_call.dry_state
                             THEN <<"multilayer/dry_wave_%s", hump_call.wave_family>>
                             ELSE <<"multilayer/wet_wave_%s", hump_call.wave_family>>]
       IN  \E ok \in BOOLEAN :
             IF ok
             THEN /\ env' = [named EXCEPT !.outdir = "_output/", !.plotdir = "_plots/"]
                  /\ Enters("paths", "loggers")
             ELSE env' = named /\ Raises("paths")
    /\ UNCHANGED <<fieldVars, renderVars, argv, eig_methods, hump_call, solver, state,
                   controller, plotted>>

\* the loggers hump redirects, in the order of the loop (lines 30-31)
LoggerNames == <<"pyclaw.io", "pyclaw.solution", "plot", "pyclaw.solver", "f2py", "data">>

\* redirect the loggers, one call each (lines 30-32); a call that raises
\* leaves the loggers before it redirected
RedirectLoggers ==
    /\ pc = "loggers"
    /\ \E fault \in 0..Len(LoggerNames) :
        IF fault = 0
        THEN /\ env' = [env EXCEPT !.loggers = LoggerNames]
             /\ Enters("loggers", "import")
        ELSE /\ env' = [env EXCEPT !.loggers = SubSeq(LoggerNames, 1, fault - 1)]
             /\ Raises("loggers")
    /\ UNCHANGED <<fieldVars, renderVars, argv, eig_methods, hump_call, solver, state,
                   controller, plotted>>

\* load the PyClaw version asked for (lines 35-38)
ImportPyclaw ==
    /\ pc = "import"
    /\ \E ok \in BOOLEAN :
        IF ok
        THEN /\ env' = [env EXCEPT !.pyclaw =
                    IF KGet(hump_call.kargs, "use_petsc", FALSE)
                    THEN "clawpack.petclaw" ELSE "clawpack.pyclaw"]
             /\ Enters("import", "solver")
        ELSE Raises("import") /\ UNCHANGED env
    /\ UNCHANGED <<fieldVars, renderVars, argv, eig_methods, hump_call, solver, state,
                   controller, plotted>>

\* the guard: is the solver asked for the classic one
IsClassic_always(k) == TRUE

IsClassic(k) == KGet(k, "solver_type", "classic") = "classic"

\* create the solver, or refuse (lines 43-46)
CreateSolver ==
    /\ pc = "solver"
    /\ IF IsClassic(hump_call.kargs)
       THEN \E ok \in BOOLEAN :
              IF ok
              THEN /\ solver' = [solver EXCEPT
                          !.made = TRUE,
                          !.riemann_solver = "layered_shallow_water_1D"]
                   /\ Enters("solver", "solver_params")
              ELSE Raises("solver") /\ UNCHANGED solver
       ELSE /\ pc' = "raised"
            /\ exc' = "NotImplementedError"
            /\ log' = Append(log, "solver")
            /\ UNCHANGED <<solver, failed>>
    /\ UNCHANGED <<fieldVars, renderVars, argv, eig_methods, hump_call, env, state,
                   controller, plotted>>

\* solver method parameters (lines 49-55)
SetSolverParameters ==
    /\ pc = "solver_params"
    /\ solver' = [solver EXCEPT
            !.cfl_desired = Double(9, 10), !.cfl_max = Double(1, 1), !.max_steps = 5000,
            !.fwave = TRUE, !.kernel_language = "Fortran", !.limiters = 3,
            !.source_split = 1]
    /\ Enters("solver_params", "bc")
    /\ UNCHANGED <<fieldVars, renderVars, argv, eig_methods, hump_call, env, state,
                   controller, plotted>>

\* boundary conditions (lines 58-61)
SetBoundaryConditions ==
    /\ pc = "bc"
    /\ solver' = [solver EXCEPT !.bc_lower = 1, !.bc_upper = 1,
                                !.aux_bc_lower = 1, !.aux_bc_upper = 1]
    /\ Enters("bc", "callbacks")
    /\ UNCHANGED <<fieldVars, renderVars, argv, eig_methods, hump_call, env, state,
                   controller, plotted>>

\* before_step and the friction source term (lines 64-67)
SetCallbacks ==
    /\ pc = "callbacks"
    /\ solver' = [solver EXCEPT !.before_step = "ml.step.before_step",
                                !.step_source = "ml.step.friction_source"]
    /\ Enters("callbacks", "state")
    /\ UNCHANGED <<fieldVars, renderVars, argv, eig_methods, hump_call, env, state,
                   controller, plotted>>

\* dimension, domain, state and the kappa row of aux (lines 73-78), four
\* operations in turn; the one that raises leaves the earlier ones done
CreateState ==
    /\ pc = "state"
    /\ LET x == [state EXCEPT !.num_cells = hump_call.num_cells,
                              !.lower = -2000, !.upper = 4000]
           built == [x EXCEPT !.made = TRUE, !.num_eqn = 2 * 2, !.num_aux = 3 + 2]
       IN  \E fault \in 0..4 :
             IF fault = 0
             THEN /\ state' = [built EXCEPT !.aux = <<"kappa">>]
                  /\ Enters("state", "problem_data")
             ELSE /\ state' = IF fault = 1 THEN state
                              ELSE IF fault \in {2, 3} THEN x
                              ELSE built
                  /\ Raises("state")
    /\ UNCHANGED <<fieldVars, renderVars, argv, eig_methods, hump_call, env, solver,
                   controller, plotted>>

\* the density ratio kept in problem_data (line 85)
DensityRatio_inverted(densities) == FDiv(densities[1], densities[0])

DensityRatio(densities) == FDiv(densities[0], densities[1])

\* physics data and method parameters (lines 81-93)
SetProblemData ==
    /\ pc = "problem_data"
    /\ LET densities == [l \in 0..1 |-> IF l = 0 THEN Double(95, 100) ELSE Double(1, 1)]
           physics == [g |-> Double(98, 10), manning |-> Zero,
                       rho_air |-> Double(115, 100000), rho |-> densities]
           r == DensityRatio(densities)
       IN  IF IsZero(densities[1])
           THEN /\ state' = [state EXCEPT !.problem_data = physics]
                /\ pc' = "raised"
                /\ exc' = "ZeroDivisionError"
                /\ log' = Append(log, "problem_data")
                /\ UNCHANGED failed
           ELSE /\ state' = [state EXCEPT
                       !.data_set = TRUE,
                       !.problem_data =
                           [g |-> physics.g, manning |-> physics.manning,
                            rho_air |-> physics.rho_air, rho |-> physics.rho,
                            r |-> r, one_minus_r |-> FSub(Double(1, 1), r),
                            num_layers |-> 2,
                            eigen_method |-> hump_call.eigen_method,
                            dry_tolerance |-> Double(1, 1000), inundation_method |-> 2,
                            entropy_fix |-> FALSE]]
                /\ Enters("problem_data", "solution")
    /\ UNCHANGED <<fieldVars, renderVars, argv, eig_methods, hump_call, env, solver,
                   controller, plotted>>

\* the solution at t = 0 (lines 95-96)
CreateSolution ==
    /\ pc = "solution"
    /\ \E ok \in BOOLEAN :
        IF ok
        THEN state' = [state EXCEPT !.t = 0] /\ Enters("solution", "aux")
        ELSE Raises("solution") /\ UNCHANGED state
    /\ UNCHANGED <<fieldVars, renderVars, argv, eig_methods, hump_call, env, solver,
                   controller, plotted>>

\* the setters of the aux array, in the order hump calls them (lines 100-102)
AuxSetters == <<"sloped_shelf_bathymetry", "no_wind", "h_hat">>

\* bathymetry, wind field and linearised depths (lines 100-102); a setter
\* that raises leaves what the setters before it wrote
SetAuxArrays ==
    /\ pc = "aux"
    /\ \E fault \in 0..Len(AuxSetters) :
        IF fault = 0
        THEN /\ state' = [state EXCEPT !.aux = @ \o AuxSetters]
             /\ Enters("aux", "qinit")
        ELSE /\ state' = [state EXCEPT !.aux = @ \o SubSeq(AuxSetters, 1, fault - 1)]
             /\ Raises("aux")
    /\ UNCHANGED <<fieldVars, renderVars, argv, eig_methods, hump_call, env, solver,
                   controller, plotted>>

\* the initial wave-family perturbation (lines 106-107)
SetInitialCondition ==
    /\ pc = "qinit"
    /\ \E ok \in BOOLEAN :
        IF ok
        THEN /\ state' = [state EXCEPT !.q = "wave_family_init_condition"]
             /\ Enters("qinit", "controller")
        ELSE Raises("qinit") /\ UNCHANGED state
    /\ UNCHANGED <<fieldVars, renderVars, argv, eig_methods, hump_call, env, solver,
                   controller, plotted>>

\* the controller and its output parameters (lines 112-122)
CreateController ==
    /\ pc = "controller"
    /\ \E ok \in BOOLEAN :
        IF ok
        THEN /\ controller' = [controller EXCEPT
                    !.made = TRUE, !.output_style = 1, !.tfinal = 100,
                    !.num_output_times = 100, !.write_aux_init = TRUE,
                    !.outdir = env.outdir, !.write_aux = TRUE,
                    !.output_format = "ascii"]
             /\ Enters("controller", "run")
        ELSE Raises("controller") /\ UNCHANGED controller
    /\ UNCHANGED <<fieldVars, renderVars, argv, eig_methods, hump_call, env, solver,
                   state, plotted>>

\* an exception of controller.run() leaves hump
RunFailed_caught ==
    /\ pc' = "plot"
    /\ failed' = "run"
    /\ log' = Append(log, "run")
    /\ UNCHANGED exc

RunFailed == Raises("run")

\* state = controller.run() (line 127)
RunSimulation ==
    /\ pc = "run"
    /\ controller' = [controller EXCEPT !.runs = @ + 1]
    /\ \E ok \in BOOLEAN :
        IF ok THEN Enters("run", "plot") ELSE RunFailed
    /\ UNCHANGED <<fieldVars, renderVars, argv, eig_methods, hump_call, env, solver,
                   state, plotted>>

\* plot(setplot=..., **plot_kargs) (lines 132-137)
Plot ==
    /\ pc = "plot"
    /\ plotted' = [calls |-> plotted.calls + 1,
                   setplot |-> "./setplot_hump.py",
                   outdir |-> env.outdir, plotdir |-> env.plotdir,
                   htmlplot |-> KGet(hump_call.kargs, "htmlplot", FALSE),
                   iplot |-> KGet(hump_call.kargs, "iplot", FALSE),
                   file_format |-> controller.output_format,
                   wave_family |-> hump_call.wave_family,
                   rho |-> state.problem_data.rho,
                   dry_tolerance |-> state.problem_data.dry_tolerance]
    /\ \E ok \in BOOLEAN :
        IF ok THEN Enters("plot", "done") ELSE Raises("plot")
    /\ UNCHANGED <<fieldVars, renderVars, argv, eig_methods, hump_call, env, solver,
                   state, controller>>

hump ==
    \/ CreatePaths \/ RedirectLoggers \/ ImportPyclaw \/ CreateSolver
    \/ SetSolverParameters \/ SetBoundaryConditions \/ SetCallbacks
    \/ CreateState \/ SetProblemData \/ CreateSolution \/ SetAuxArrays
    \/ SetInitialCondition \/ CreateController \/ RunSimulation \/ Plot

\* ------------------------------------------------------------ driver inputs
ArgTokens == { <<"2">>, <<"3">>, <<"1", "4">>, <<"-", "1">>, <<"x">>,
               <<"", "3", "\n">>, <<"-", " ", "1">>, <<" ">> }
ArgLists == UNION {[1..n -> ArgTokens] : n \in 0..MaxArgs}

CellCounts == {NumCells, resolution}
EigenMethods == 1..4
WaveFamilies == {3, 4, 5}
KeywordChoices ==
    << <<>>,
       [solver_type |-> "classic"],
       [solver_type |-> "sharpclaw"],
       [use_petsc |-> TRUE],
       [solver_type |-> "sharpclaw", htmlplot |-> TRUE],
       [iplot |-> FALSE, htmlplot |-> TRUE] >>

FieldsIdle ==
    /\ setplot(<<Num(1), Num(2)>>, Num(1), CHOOSE bottom \in BathyProfiles : TRUE)
    /\ cd = [frameno |-> -1, t |-> -1, q |-> Uniform(Zero, Zero, Zero, Zero)]
    /\ derived = NoFields
    /\ fig = NoFigure
    /\ outcome = NotCalled

\* hump.py is run as a script, or hump is called by another module
Init ==
    /\ FieldsIdle
    /\ eig_methods = <<>>
    /\ env = NoEnv
    /\ solver = NoSolver
    /\ state = NoState
    /\ controller = NoController
    /\ plotted = NoPlot
    /\ log = <<>>
    /\ failed = "none"
    /\ exc = "none"
    /\ \/ /\ argv \in ArgLists
          /\ hump_call = NoCall
          /\ pc = "main"
       \/ /\ argv = <<>>
          /\ \E n \in CellCounts, e \in EigenMethods, w \in WaveFamilies,
                d \in BOOLEAN, k \in 1..Len(KeywordChoices) :
                hump_call = [num_cells |-> n, eigen_method |-> e, wave_family |-> w,
                        dry_state |-> d, kargs |-> KeywordChoices[k],
                        from |-> "hump_call"]
          /\ pc = "paths"

Next == Main \/ hump

Spec == Init /\ [][Next]_vars

\* ------------------------------------------------------ float literals
\* the positive float 0x1.<digits>p<e> of 13 hexadecimal digits
RECURSIVE Hex(_)
Hex(digits) ==
    IF digits = <<>> THEN 0
    ELSE 16 * Hex(SubSeq(digits, 1, Len(digits) - 1)) + digits[Len(digits)]

HexFloat(digits, e) ==
    [c |-> "fin", s |-> 1, e |-> e - 52,
     hi |-> 2^25 + 2 * Hex(SubSeq(digits, 1, 6)) + digits[7] \div 8,
     lo |-> (digits[7] % 8) * 2^24 + Hex(SubSeq(digits, 8, 13))]

\* ------------------------------------------- properties of the derived fields
Evaluated == derived # NoFields
Depth(l, i) == FDiv(cd.q[2 * l][i], rho[l])
Wet(l, i) == FGt(Depth(l, i), dry_tolerance)
Velocity(l) == IF l = 0 THEN derived.u_1 ELSE derived.u_2
Divided(l) == IF l = 0 THEN derived.index_1 ELSE derived.index_2
ValidState ==
    /\ FGt(rho[0], Zero) /\ FGt(rho[1], Zero)
    /\ \A i \in Cells : FGe(cd.q[0][i], Zero) /\ FGe(cd.q[2][i], Zero)

\* C1: in every cell whose layer depth (mass / density) is strictly greater
\* than dry_tolerance, the velocity returned by u_1 (u_2) is that layer's
\* momentum component divided by its mass component.
C1_WetVelocity ==
    Evaluated =>
        \A l \in 0..1, i \in Cells :
            Wet(l, i) =>
                Velocity(l)[i] = FDiv(cd.q[2 * l + 1][i], cd.q[2 * l][i])

\* a frame with a wet and a dry cell in the top layer, the wet one moving
C1_Witness ==
    /\ Evaluated
    /\ \E i, j \in Cells :
           /\ Wet(0, i) /\ ~Wet(0, j)
           /\ derived.u_1[i] = FDiv(cd.q[1][i], cd.q[0][i])
           /\ derived.u_1[i] # Zero
           /\ rho[0] # Num(1)

\* C2: in every cell whose layer depth is at most dry_tolerance (equality
\* included) the returned velocity is exactly 0 and the cell is not among
\* those divided; the velocity array is as long as the depth array.
C2_DryVelocity ==
    Evaluated =>
        /\ \A l \in 0..1, i \in Cells :
               FGe(dry_tolerance, Depth(l, i)) =>
                   Velocity(l)[i] = Zero /\ i \notin Divided(l)
        /\ Len(derived.u_1) = Len(derived.h_1)
        /\ Len(derived.u_2) = Len(derived.h_2)

\* a cell whose depth equals the tolerance, with momentum in it
C2_Witness ==
    /\ Evaluated
    /\ \E i \in Cells :
           /\ Depth(0, i) = dry_tolerance
           /\ ~IsZero(cd.q[0][i]) /\ ~IsZero(cd.q[1][i])
           /\ derived.u_1[i] = Zero

\* C3: for a valid state (masses non-negative, densities positive) every
\* cell has eta_1 >= eta_2 >= bathymetry, where eta_2 = h_2 + bathymetry and
\* eta_1 = h_1 + eta_2.
C3_Stacking ==
    (Evaluated /\ ValidState) =>
        \A i \in Cells :
            /\ derived.eta_2[i] = FAdd(Depth(1, i), b[i])
            /\ derived.eta_1[i] = FAdd(Depth(0, i), derived.eta_2[i])
            /\ FGe(derived.eta_1[i], derived.eta_2[i])
            /\ FGe(derived.eta_2[i], b[i])

\* a valid frame whose bottom layer is deeper than its top layer somewhere,
\* with a surface that is a rounded sum: densities 3 and 1, masses 1 and 1
\* over a floor at -2 give eta_2 = -1 and eta_1 = 1/3 - 1 =
\* -0x1.5555555555556p-1
C3_Witness ==
    /\ Evaluated /\ ValidState
    /\ \E i \in Cells :
           /\ FGt(Depth(1, i), Depth(0, i)) /\ FGt(Depth(0, i), Zero)
           /\ FGt(derived.eta_1[i], derived.eta_2[i])
           /\ FGt(derived.eta_2[i], b[i])
           /\ derived.eta_1[i] = FNeg(HexFloat(<<5, 5, 5, 5, 5, 5, 5, 5, 5, 5, 5, 5, 6>>, -1))

\* C10: with both densities positive and dry_tolerance >= 0, every cell in
\* which u_1 or u_2 divides has a strictly positive mass component.
C10_NoZeroDivision ==
    (Evaluated /\ FGt(rho[0], Zero) /\ FGt(rho[1], Zero) /\ FGe(dry_tolerance, Zero)) =>
        \A l \in 0..1 : \A i \in Divided(l) : FGt(cd.q[2 * l][i], Zero)

\* the guard and the divisor differ (density is not 1) and a cell is divided
C10_Witness ==
    /\ Evaluated /\ FGt(rho[0], Zero) /\ FGt(rho[1], Num(1)) /\ FGe(dry_tolerance, Zero)
    /\ \E i \in derived.index_2 : derived.u_2[i] = FDiv(cd.q[3][i], cd.q[2][i])
    /\ \E i \in Cells : i \notin derived.index_2 /\ IsZero(cd.q[2][i])

\* ------------------------------------------------- properties of the renderer
RoutineCalls(name, c) ==
    CASE name = "twin_axes_14" -> DepthAndVelocity(c, xlimits, ylimits_depth)
      [] name = "twin_axes_15" ->
            DepthAndVelocity(c, xlimits_depth_zoomed, ylimits_depth_zoomed)
      [] name = "twin_axes_zoomed" -> DepthZoomed(c)
      [] OTHER -> <<>>
Called == outcome.routine # "none"
FaultAt(op) ==
    /\ outcome.fault # 0
    /\ RoutineCalls(outcome.routine, cd)[outcome.fault].op = op
TwoSubplotsDrawn ==
    /\ Len(fig.axes) = 2
    /\ fig.axes[1].pos = 211 /\ fig.axes[2].pos = 212
    /\ \A k \in 1..2 : Len(fig.axes[k].artists) >= 2
    /\ fig.axes[1].set_title = Title(cd)
    /\ fig.axes[2].set_ticklabels = LocLabels

\* C8: an exception of the subplots_adjust call is swallowed (the routine
\* returns and the figure keeps both subplots as drawn); an exception of any
\* other call of the routine leaves the routine at that call.
C8_OnlyLayoutSwallowed ==
    Called =>
        /\ FaultAt("subplots_adjust") =>
               outcome.result = "returned" /\ TwoSubplotsDrawn
        /\ (outcome.fault # 0 /\ ~FaultAt("subplots_adjust")) =>
               outcome.result = "raised" /\ outcome.at = outcome.fault
        /\ outcome.fault = 0 => outcome.result = "returned"

\* subplots_adjust raised in a routine that nevertheless returned, and the
\* spacing of the figure was never adjusted
C8_Witness ==
    /\ Called /\ FaultAt("subplots_adjust")
    /\ outcome.result = "returned"
    /\ fig.hspace = "default"
    /\ TwoSubplotsDrawn

\* C9: the figure is cleared before drawing: once a routine is past clf the
\* figure holds what drawing that frame on an empty figure gives, whatever
\* was rendered before; after a routine that returned these are exactly the
\* two subplots of the frame just rendered.
C9_OnlyLastFrame ==
    (Called /\ (outcome.result = "returned" \/ outcome.at > Len(ClearFigure))) =>
        /\ fig.axes =
             Draw(RoutineCalls(outcome.routine, cd), 1, NoFigure, outcome.fault).fig.axes
        /\ Found(fig) \subseteq {cd.t}
        /\ outcome.result = "returned" => TwoSubplotsDrawn

\* a frame rendered over the drawing of a different frame
C9_Witness ==
    /\ Called /\ outcome.result = "returned"
    /\ outcome.found # {} /\ cd.t \notin outcome.found
    /\ TwoSubplotsDrawn
    /\ Found(fig) = {cd.t}

\* --------------------------------------------------- properties of the driver
HumpOrder ==
    <<"paths", "loggers", "import", "solver", "solver_params", "bc", "callbacks",
      "state", "problem_data", "solution", "aux", "qinit", "controller", "run",
      "plot">>
Unsupported ==
    /\ hump_call.from # "none"
    /\ "solver_type" \in DOMAIN hump_call.kargs
    /\ hump_call.kargs["solver_type"] # "classic"
Supported ==
    /\ hump_call.from # "none"
    /\ ~Unsupported
SetUp ==
    /\ solver.made /\ solver.max_steps = 5000 /\ solver.cfl_desired = Double(9, 10)
    /\ solver.bc_lower = 1 /\ solver.aux_bc_upper = 1
    /\ solver.before_step # "" /\ solver.step_source # ""
    /\ state.made /\ state.data_set
    /\ state.aux = <<"kappa", "sloped_shelf_bathymetry", "no_wind", "h_hat">>
    /\ state.q # ""
    /\ controller.made

\* C4: called with a solver_type other than 'classic', hump raises
\* NotImplementedError at the guard and sets nothing up: no solver, no state,
\* no problem data, no run, no plot.  With solver_type absent or 'classic'
\* the guard does not fire.
C4_UnsupportedSolver ==
    /\ Unsupported =>
          /\ ~solver.made /\ ~state.made /\ ~state.data_set /\ ~controller.made
          /\ controller.runs = 0 /\ plotted.calls = 0
          /\ pc # "done"
          /\ Len(log) <= 4
          /\ (log # <<>> /\ log[Len(log)] = "solver") =>
                 pc = "raised" /\ exc = "NotImplementedError"
    /\ Supported => exc # "NotImplementedError"

\* the guard was reached with an unsupported solver type
C4_Witness ==
    /\ Unsupported
    /\ log = <<"paths", "loggers", "import", "solver">>
    /\ pc = "raised" /\ exc = "NotImplementedError" /\ failed = "none"

\* C5: the integer command-line arguments select the eigen method(s) of the
\* run(s); with no argument there is exactly one run of hump, with resolution
\* 8000, wave family 5, wet state and eigen method 2.
C5_ArgumentsSelectMethod ==
    hump_call.from = "script" =>
        /\ <<hump_call.eigen_method>> = eig_methods
        /\ argv = <<>> =>
               /\ hump_call.num_cells = 8000 /\ hump_call.wave_family = 5
               /\ ~hump_call.dry_state /\ hump_call.eigen_method = 2

\* C6: problem_data holds r = rho[0] / rho[1] and one_minus_r = 1 - r, both
\* from the rho entry stored there, so that r + one_minus_r = 1.
C6_DensityRatio ==
    state.data_set =>
        LET pd == state.problem_data
        IN  /\ \A l \in 0..1 : FGt(pd.rho[l], Zero)
            /\ pd.r = FDiv(pd.rho[0], pd.rho[1])
            /\ pd.one_minus_r = FSub(Double(1, 1), pd.r)
            /\ FAdd(pd.r, pd.one_minus_r) = Double(1, 1)

\* the float written 0x1.hhhhhhhhhhhhhp<e>, from its thirteen hex digits
\* the data of the run: densities 0.95 and 1.0, ratio 0.95 =
\* 0x1.e666666666666p-1, and 1.0 - 0.95 = 0x1.99999999999a0p-5, which is
\* 0.050000000000000044 and not the float 0.05
C6_Witness ==
    /\ state.data_set
    /\ state.problem_data.rho[0] = HexFloat(<<14, 6, 6, 6, 6, 6, 6, 6, 6, 6, 6, 6, 6>>, -1)
    /\ state.problem_data.rho[1] = HexFloat(<<0, 0, 0, 0, 0, 0, 0, 0, 0, 0, 0, 0, 0>>, 0)
    /\ state.problem_data.r = state.problem_data.rho[0]
    /\ state.problem_data.one_minus_r =
           HexFloat(<<9, 9, 9, 9, 9, 9, 9, 9, 9, 9, 9, 10, 0>>, -5)
    /\ state.problem_data.one_minus_r # Double(5, 100)

\* C7: the steps of hump are entered in program order, each at most once:
\* everything is set up before the single controller.run(), plot is called
\* once and only after run returned, and an exception of any step leaves
\* hump there (not caught, not retried), so that plot is never called.
C7_RunThenPlot ==
    /\ Len(log) <= Len(HumpOrder)
    /\ log = SubSeq(HumpOrder, 1, Len(log))
    /\ controller.runs <= 1 /\ plotted.calls <= 1
    /\ controller.runs = 1 => SetUp
    /\ plotted.calls = 1 => controller.runs = 1 /\ failed # "run"
    /\ pc = "done" =>
          /\ controller.runs = 1 /\ plotted.calls = 1
          /\ exc = "none" /\ failed = "none"
    /\ failed # "none" =>
          /\ pc = "raised" /\ exc = "external"
          /\ log[Len(log)] = failed
          /\ failed # "plot" => plotted.calls = 0

\* controller.run() raised after the whole setup
C7_Witness ==
    /\ pc = "raised" /\ failed = "run" /\ exc = "external"
    /\ SetUp /\ controller.runs = 1 /\ plotted.calls = 0
====
